---- MODULE Spec2Model ----
(***************************************************************************)
(* Model of cisco_troubleshooter.py: the CiscoTroubleshooter session       *)
(* (connect / disconnect / run_command), run_diagnostics, check_health     *)
(* and the workflows that drive them (main, examples/example_usage.py).    *)
(*                                                                         *)
(* Text is modelled as a sequence of one-character strings, so that the    *)
(* substring tests, splits and int() conversions of check_health are       *)
(* computed the way Python computes them.  The transport (netmiko) is      *)
(* outside the repository: what it answers is a nondeterministic input.    *)
(***************************************************************************)
EXTENDS Integers, Sequences, FiniteSets, TLC

\* ------------------------------------------------------------------ bounds
MaxLines == 2        \* lines in a multi-line device output
MaxCmds == 2         \* length of a caller-supplied command list
MaxDisconnects == 2  \* transport disconnect() invocations that are counted

\* ------------------------------------------------- Python values and text
\* None: a one-element tuple that no text equals (text holds 1-char strings)
PyNone == <<"None">>

Whitespace == {" ", "\n", "\t", "\r"}

Digits == <<"0","1","2","3","4","5","6","7","8","9">>

IsDigit(c) == \E d \in 1..10 : Digits[d] = c

DigitVal(c) == (CHOOSE d \in 1..10 : Digits[d] = c) - 1

\* `sub in s`
Contains(s, sub) ==
    \E i \in 0..(Len(s) - Len(sub)) : SubSeq(s, i + 1, i + Len(sub)) = sub

\* 1-based index of the first occurrence of sub in s, 0 when there is none
Find(s, sub) ==
    IF Contains(s, sub)
    THEN 1 + CHOOSE i \in 0..(Len(s) - Len(sub)) :
               /\ SubSeq(s, i + 1, i + Len(sub)) = sub
               /\ \A j \in 0..(i - 1) : SubSeq(s, j + 1, j + Len(sub)) # sub
    ELSE 0

\* s.split(sep), sep non-empty
RECURSIVE Split(_, _)
Split(s, sep) ==
    LET i == Find(s, sep)
    IN  IF i = 0 THEN <<s>>
        ELSE <<SubSeq(s, 1, i - 1)>> \o Split(SubSeq(s, i + Len(sep), Len(s)), sep)

RECURSIVE LStrip(_)
LStrip(s) ==
    IF s # <<>> /\ Head(s) \in Whitespace THEN LStrip(Tail(s)) ELSE s

RECURSIVE RStrip(_)
RStrip(s) ==
    IF s # <<>> /\ s[Len(s)] \in Whitespace
    THEN RStrip(SubSeq(s, 1, Len(s) - 1)) ELSE s

\* s.strip()
Strip(s) == RStrip(LStrip(s))

\* s.split(): the maximal runs of non-whitespace characters
RECURSIVE SplitWs(_)
SplitWs(s) ==
    LET t == LStrip(s)
    IN  IF t = <<>> THEN <<>>
        ELSE LET ws == {i \in 1..Len(t) : t[i] \in Whitespace}
                 e  == IF ws = {} THEN Len(t) + 1
                       ELSE CHOOSE i \in ws : \A j \in ws : i <= j
             IN  <<SubSeq(t, 1, e - 1)>> \o SplitWs(SubSeq(t, e, Len(t)))

\* value of a digit string in which single underscores may separate digits
RECURSIVE DigitsValue(_, _)
DigitsValue(s, acc) ==
    IF s = <<>> THEN acc
    ELSE IF Head(s) = "_" THEN DigitsValue(Tail(s), acc)
    ELSE DigitsValue(Tail(s), 10 * acc + DigitVal(Head(s)))

\* int(s): surrounding whitespace stripped, an optional sign, then digits with
\* single underscores allowed between digits; anything else is a ValueError
ParseInt(s) ==
    LET t    == Strip(s)
        sgn  == t # <<>> /\ Head(t) \in {"+", "-"}
        body == IF sgn THEN Tail(t) ELSE t
        ok   == /\ body # <<>>
                /\ \A i \in 1..Len(body) : IsDigit(body[i]) \/ body[i] = "_"
                /\ IsDigit(body[1]) /\ IsDigit(body[Len(body)])
                /\ \A i \in 1..(Len(body) - 1) : ~(body[i] = "_" /\ body[i + 1] = "_")
    IN  IF ~ok THEN [ok |-> FALSE]
        ELSE [ok |-> TRUE,
              val |-> IF sgn /\ Head(t) = "-" THEN 0 - DigitsValue(body, 0)
                      ELSE DigitsValue(body, 0)]

\* str(n) as an f-string renders an int
RECURSIVE IntToStr(_)
IntToStr(n) ==
    IF n < 0 THEN <<"-">> \o IntToStr(0 - n)
    ELSE IF n < 10 THEN <<Digits[n + 1]>>
    ELSE IntToStr(n \div 10) \o <<Digits[(n % 10) + 1]>>

\* "\n".join(lines)
RECURSIVE JoinLines(_)
JoinLines(ls) ==
    IF ls = <<>> THEN <<>>
    ELSE IF Len(ls) = 1 THEN ls[1]
    ELSE ls[1] \o <<"\n">> \o JoinLines(Tail(ls))

\* ------------------------------------------------------ string literals
MarkerError == <<"E","r","r","o","r">>
MarkerFiveMinutes == <<"f","i","v","e"," ","m","i","n","u","t","e","s",":">>
MarkerFree == <<"F","r","e","e">>
MsgNotConnected == <<"E","r","r","o","r",":"," ","N","o","t"," ","c","o","n","n","e","c","t","e","d"," ","t","o"," ","d","e","v","i","c","e">>
MsgErrorExecuting == <<"E","r","r","o","r"," ","e","x","e","c","u","t","i","n","g"," ","c","o","m","m","a","n","d",":"," ">>
MsgFailedToConnect == <<"F","a","i","l","e","d"," ","t","o"," ","c","o","n","n","e","c","t"," ","t","o"," ","d","e","v","i","c","e">>
MsgHighCpu == <<"H","i","g","h"," ","C","P","U"," ","u","s","a","g","e",":"," ">>
MsgLowMemory == <<"L","o","w"," ","m","e","m","o","r","y">>
MsgInterfacesDown == <<" ","i","n","t","e","r","f","a","c","e","s"," ","d","o","w","n">>
MsgNoIssues == <<"N","o"," ","i","s","s","u","e","s"," ","d","e","t","e","c","t","e","d">>

CpuThreshold == 80
LowMemoryThreshold == 10000000


\* ------------------------------------------------------------ the session
VARIABLES
    device,            \* self.device['ip']
    connection,        \* self.connection: PyNone or the transport object
    hostname,          \* self.hostname: PyNone or text
    transport,         \* the transport object last created by ConnectHandler
    everConnected,     \* history: some connect() call has returned True
    disconnectCalled,  \* history: disconnect() was called since that connect()
    sent,              \* commands handed to send_command during the current call
    call,              \* the current call: operation, arguments, locals
    ret,               \* what the current call returned or raised
    pc,                \* position of the caller within its workflow
    workflow           \* the caller: which function drives the session

vars == <<device, connection, hostname, transport, everConnected, disconnectCalled,
          sent, call, ret, pc, workflow>>

\* the object ConnectHandler(**self.device) returns (truthy)
Handler == <<"BaseConnection">>

NoTransport == [open |-> FALSE, disconnects |-> 0]

\* the session as the methods see it (self), with the log of the current call
Self ==
    [device |-> device, connection |-> connection, hostname |-> hostname, transport |-> transport,
     everConnected |-> everConnected, disconnectCalled |-> disconnectCalled,
     sent |-> <<>>]

\* what ConnectHandler / find_prompt can do: succeed, or raise one of the
\* exceptions connect() catches
ConnectOutcomes == {"ok", "auth", "timeout", "error", "prompt_error"}

Prompts == {<<"R","1","#">>}

\* what send_command can do: return text or raise
Text(t) == [kind |-> "text", text |-> t]

Raise(m) == [kind |-> "raise", msg |-> m]

ExcMessages == {<<"t","i","m","e","d"," ","o","u","t">>}

\* CiscoTroubleshooter.__init__
NewSession(ip) ==
    [device |-> ip, connection |-> PyNone, hostname |-> PyNone, transport |-> NoTransport,
     everConnected |-> FALSE, disconnectCalled |-> FALSE, sent |-> <<>>]

\* CiscoTroubleshooter.connect
connect(s, outcome, prompt) ==
    IF outcome \in {"auth", "timeout", "error"}
    THEN \* ConnectHandler raised: nothing was assigned
         [s |-> s, ret |-> FALSE]
    ELSE LET s1 == [s EXCEPT !.connection = Handler,
                             !.transport = [open |-> TRUE, disconnects |-> 0]]
         IN  IF outcome = "prompt_error"
             THEN \* find_prompt raised after self.connection was assigned
                  [s |-> s1, ret |-> FALSE]
             ELSE [s |-> [s1 EXCEPT !.hostname = SubSeq(prompt, 1, Len(prompt) - 1),
                                    !.everConnected = TRUE,
                                    !.disconnectCalled = FALSE],
                   ret |-> TRUE]

\* CiscoTroubleshooter.disconnect
disconnect(s) ==
    IF s.connection # PyNone
    THEN [s EXCEPT !.transport = [open |-> FALSE, disconnects |-> @.disconnects + 1],
                   !.disconnectCalled = TRUE]
    ELSE [s EXCEPT !.disconnectCalled = TRUE]

\* run_command with the except branch returning the bare message (a slip
\* the property of C10 must catch)
run_command_BareMessage(s, command, resp) ==
    IF s.connection = PyNone
    THEN [s |-> s, ret |-> MsgNotConnected]
    ELSE LET s1 == [s EXCEPT !.sent = Append(@, command)]
         IN  IF resp.kind = "text"
             THEN [s |-> s1, ret |-> resp.text]
             ELSE [s |-> s1, ret |-> resp.msg]

\* CiscoTroubleshooter.run_command
run_command(s, command, resp) ==
    IF s.connection = PyNone
    THEN [s |-> s, ret |-> MsgNotConnected]
    ELSE LET s1 == [s EXCEPT !.sent = Append(@, command)]
         IN  IF resp.kind = "text"
             THEN [s |-> s1, ret |-> resp.text]
             ELSE [s |-> s1, ret |-> MsgErrorExecuting \o resp.msg]


\* ---------------------------------------------------------- run_diagnostics
DIAGNOSTIC_COMMANDS ==
    <<"show version", "show ip interface brief", "show interfaces status",
      "show logging | last 50",
      "show processes cpu | exclude 0.00%__0.00%__0.00%",
      "show memory statistics">>

\* datetime.datetime.now().strftime(TIMESTAMP_FORMAT)
Timestamps == {"2025-01-01_00-00-00"}

\* a Python dict: its keys in insertion order and the value at each key
EmptyDict == [keys |-> <<>>, at |-> <<>>]

HasKey(d, k) == \E i \in 1..Len(d.keys) : d.keys[i] = k

\* a store that keeps the first value of a key (a slip the property of C4
\* must catch)
DictSetKeepsFirst(d, k, v) ==
    IF HasKey(d, k) THEN d
    ELSE [keys |-> Append(d.keys, k), at |-> Append(d.at, v)]

\* d[k] = v: a new key goes last, a known key keeps its place and is overwritten
DictSet(d, k, v) ==
    IF HasKey(d, k)
    THEN [d EXCEPT !.at = [i \in 1..Len(d.keys) |->
                              IF d.keys[i] = k THEN v ELSE d.at[i]]]
    ELSE [keys |-> Append(d.keys, k), at |-> Append(d.at, v)]

\* d[k], k a key of d
DictGet(d, k) == d.at[CHOOSE i \in 1..Len(d.keys) : d.keys[i] = k]

\* the connect-or-fail gate of run_diagnostics and check_health:
\* if not self.connection: if not self.connect(): return {"error": ...}
Gate(s, conn) ==
    IF s.connection # PyNone
    THEN [s |-> s, attempted |-> FALSE, pass |-> TRUE]
    ELSE LET c == connect(s, conn.outcome, conn.prompt)
         IN  [s |-> c.s, attempted |-> TRUE, pass |-> c.ret]

ErrorDict == [error |-> MsgFailedToConnect]

\* the loop of run_diagnostics from the i-th command on
RECURSIVE RunAll(_, _, _, _, _, _)
RunAll(s, commands, resps, i, diag, outputs) ==
    IF i > Len(commands)
    THEN [s |-> s, diagnostics |-> diag, outputs |-> outputs]
    ELSE LET r == run_command(s, commands[i], resps[i])
         IN  RunAll(r.s, commands, resps, i + 1,
                    DictSet(diag, commands[i], r.ret), Append(outputs, r.ret))

\* CiscoTroubleshooter.run_diagnostics; arg is the caller's list or PyNone,
\* resps[i] is what the transport does at the i-th send_command
run_diagnostics(s, arg, conn, resps, now) ==
    LET g == Gate(s, conn)
    IN  IF ~g.pass
        THEN [s |-> g.s, attempted |-> g.attempted, commands |-> <<>>,
              outputs |-> <<>>, ret |-> ErrorDict]
        ELSE LET commands == IF arg = PyNone \/ arg = <<>>
                             THEN DIAGNOSTIC_COMMANDS ELSE arg
                 run == RunAll(g.s, commands, resps, 1, EmptyDict, <<>>)
             IN  [s |-> run.s, attempted |-> g.attempted, commands |-> commands,
                  outputs |-> run.outputs,
                  ret |-> [device |-> g.s.device, hostname |-> g.s.hostname,
                           timestamp |-> now, diagnostics |-> run.diagnostics]]


\* ------------------------------------------------------------- check_health
CpuCommand == "show processes cpu | include CPU"

MemCommand == "show memory statistics | include Processor"

IntCommand == "show ip interface brief | include down"

\* the for loop of the CPU probe from the i-th line on; a line whose
\* five-minute field int() rejects raises ValueError out of the loop
RECURSIVE CpuLoop(_, _, _)
CpuLoop(health, lines, i) ==
    IF i > Len(lines) THEN [health |-> health, raised |-> FALSE]
    ELSE IF ~Contains(lines[i], MarkerFiveMinutes)
    THEN CpuLoop(health, lines, i + 1)
    ELSE LET field == Split(Split(lines[i], MarkerFiveMinutes)[2], <<"%">>)[1]
             cpu_5min == ParseInt(field)
         IN  IF ~cpu_5min.ok THEN [health |-> health, raised |-> TRUE]
             ELSE IF cpu_5min.val > CpuThreshold
             THEN CpuLoop([health EXCEPT
                             !.issues = Append(@, MsgHighCpu \o IntToStr(cpu_5min.val)
                                                     \o <<"%">>),
                             !.status = "warning"],
                          lines, i + 1)
             ELSE CpuLoop(health, lines, i + 1)

\* # Check CPU usage
CpuProbe(health, cpu_output) ==
    IF ~Contains(cpu_output, MarkerError)
    THEN CpuLoop(health, Split(Strip(cpu_output), <<"\n">>), 1)
    ELSE [health |-> health, raised |-> FALSE]

\* # Check memory
MemProbe(health, mem_output) ==
    IF ~Contains(mem_output, MarkerError) /\ Contains(mem_output, MarkerFree)
    THEN LET tokens == SplitWs(mem_output)
             free == ParseInt(tokens[Len(tokens)])
         IN  IF ~free.ok THEN [health |-> health, raised |-> TRUE]
             ELSE IF free.val < LowMemoryThreshold
             THEN [health |-> [health EXCEPT !.issues = Append(@, MsgLowMemory),
                                             !.status = "warning"],
                   raised |-> FALSE]
             ELSE [health |-> health, raised |-> FALSE]
    ELSE [health |-> health, raised |-> FALSE]

\* an interface probe that also downgrades status (a slip the property of C6
\* must catch)
IntProbeWarns(health, int_output) ==
    IF ~Contains(int_output, MarkerError) /\ Strip(int_output) # <<>>
    THEN [health EXCEPT !.issues = Append(@, IntToStr(Len(Split(Strip(int_output),
                                                               <<"\n">>)))
                                              \o MsgInterfacesDown),
                        !.status = "warning"]
    ELSE health

\* # Check interfaces
IntProbe(health, int_output) ==
    IF ~Contains(int_output, MarkerError) /\ Strip(int_output) # <<>>
    THEN LET down_count == Len(Split(Strip(int_output), <<"\n">>))
         IN  IF down_count > 0
             THEN [health EXCEPT !.issues = Append(@, IntToStr(down_count)
                                                       \o MsgInterfacesDown)]
             ELSE health
    ELSE health

\* a finalisation that leaves an empty issues list empty (a slip the property
\* of C7 must catch)
FinalizeSkips(health) == health

\* if not health['issues']: health['issues'].append("No issues detected")
Finalize(health) ==
    IF health.issues = <<>>
    THEN [health EXCEPT !.issues = Append(@, MsgNoIssues)]
    ELSE health

ValueError == [kind |-> "raise", exc |-> "ValueError"]

Returned(v) == [kind |-> "return", val |-> v]

\* CiscoTroubleshooter.check_health; cpu, mem and int are what the transport
\* does at the three send_command calls.  A local that was never assigned
\* (the call left before its line) is PyNone in the result.
check_health(s, conn, cpu, mem, int) ==
    LET g == Gate(s, conn)
        none == [cpu_output |-> PyNone, mem_output |-> PyNone, int_output |-> PyNone]
    IN  IF ~g.pass
        THEN [s |-> g.s, attempted |-> g.attempted, locals |-> none,
              ret |-> Returned(ErrorDict)]
        ELSE
        LET health == [device |-> g.s.device, hostname |-> g.s.hostname,
                       status |-> "healthy", issues |-> <<>>]
            c  == run_command(g.s, CpuCommand, cpu)
            h1 == CpuProbe(health, c.ret)
            l1 == [none EXCEPT !.cpu_output = c.ret]
        IN  IF h1.raised
            THEN [s |-> c.s, attempted |-> g.attempted, locals |-> l1,
                  ret |-> ValueError]
            ELSE
            LET m  == run_command(c.s, MemCommand, mem)
                h2 == MemProbe(h1.health, m.ret)
                l2 == [l1 EXCEPT !.mem_output = m.ret]
            IN  IF h2.raised
                THEN [s |-> m.s, attempted |-> g.attempted, locals |-> l2,
                      ret |-> ValueError]
                ELSE
                LET n  == run_command(m.s, IntCommand, int)
                    h3 == IntProbe(h2.health, n.ret)
                IN  [s |-> n.s, attempted |-> g.attempted,
                     locals |-> [l2 EXCEPT !.int_output = n.ret],
                     ret |-> Returned(Finalize(h3))]


\* ------------------------------------------------------------------ inputs
\* what the transport can be asked and can answer, drawn from small sets

\* "CPU utilization for five seconds: 10%/0%; one minute: 12%; five minutes: 85%"
CpuSample85 == <<"C","P","U"," ","u","t","i","l","i","z","a","t","i","o","n"," ","f","o","r"," ","f","i","v","e"," ","s","e","c","o","n","d","s",":"," ","1","0","%","/","0","%",";"," ","o","n","e"," ","m","i","n","u","t","e",":"," ","1","2","%",";"," ">>
               \o MarkerFiveMinutes \o <<" ","8","5","%">>

\* lines a multi-line CPU output is made of: above the threshold, unparsable
CpuLines ==
    {MarkerFiveMinutes \o <<" ","8","1","%">>,
     MarkerFiveMinutes \o <<" ","n","/","a","%">>}

LinesUpTo(lineSet, n) == UNION {[1..k -> lineSet] : k \in 1..n}

CpuTexts ==
    {JoinLines(ls) : ls \in LinesUpTo(CpuLines, MaxLines)}
    \cup {<<>>,
          CpuSample85,
          <<"C","P","U"," ","b","u","s","y">>,
          MarkerFiveMinutes \o <<" ","8","0","%">>,
          <<" ">> \o MarkerFiveMinutes \o <<"9","1","\n">>,
          <<"%"," ">> \o MarkerError \o <<"\n">> \o MarkerFiveMinutes \o <<" ","9","9","%">>}

\* "Processor Pool Total: 50000000 Used: 49000000 "
MemPrefix == <<"P","r","o","c","e","s","s","o","r"," ","P","o","o","l"," ","T","o","t","a","l",":"," ","5","0","0","0","0","0","0","0"," ","U","s","e","d",":"," ","4","9","0","0","0","0","0","0"," ">>

MemTexts ==
    {MemPrefix \o MarkerFree \o <<":"," ","1","0","0","0","0","0","0">>,
     MarkerFree \o <<":"," ","9","9","9","9","9","9","9","\n">>,
     MarkerFree \o <<":"," ","1","0","0","0","0","0","0","0">>,
     MarkerFree \o <<":"," ","1","0","0","0","0","0","0"," ","b","y","t","e","s">>,
     <<"0"," ">> \o MarkerFree,
     MarkerError \o <<" ">> \o MarkerFree \o <<" ","1">>,
     <<"P","r","o","c","e","s","s","o","r"," ","1">>,
     <<>>}

DownLine == <<"G","i","0","/","1"," ","d","o","w","n">>

IntTexts ==
    {JoinLines(ls) : ls \in LinesUpTo({DownLine}, MaxLines + 1)}
    \cup {<<>>, <<" ","\n">>,
          DownLine \o <<"\n">>,
          DownLine \o <<"\n","\n">> \o DownLine,
          MarkerError \o <<"\n">> \o DownLine}

Responses(texts) == {Text(t) : t \in texts} \cup {Raise(m) : m \in ExcMessages}

\* commands and outputs of run_command / run_diagnostics callers
Commands == {"show version", "show cdp neighbors"}

Outputs == {<<"I","O","S">>, <<>>}

CommandLists == {<<>>} \cup UNION {[1..k -> Commands] : k \in 1..MaxCmds}

\* what connect() can meet: an outcome, and the prompt when there is one
ConnInputs ==
    {[outcome |-> "ok", prompt |-> p] : p \in Prompts}
    \cup {[outcome |-> o, prompt |-> PyNone] : o \in ConnectOutcomes \ {"ok"}}

\* the gate calls connect() only when self.connection is falsy
GateInputs(s) ==
    IF s.connection = PyNone THEN ConnInputs
    ELSE {[outcome |-> "unused", prompt |-> PyNone]}


\* ------------------------------------------------------------------ calls
\* the session after a call, and the log of what the call sent
Install(s) ==
    /\ device' = s.device
    /\ connection' = s.connection
    /\ hostname' = s.hostname
    /\ transport' = s.transport
    /\ everConnected' = s.everConnected
    /\ disconnectCalled' = s.disconnectCalled
    /\ sent' = s.sent

\* ts.connect()
DoConnect ==
    \E conn \in ConnInputs :
        LET r == connect(Self, conn.outcome, conn.prompt)
        IN  /\ Install(r.s)
            /\ call' = [op |-> "connect"]
            /\ ret' = Returned(r.ret)

\* ts.disconnect()
DoDisconnect ==
    /\ connection # PyNone => transport.disconnects < MaxDisconnects
    /\ Install(disconnect(Self))
    /\ call' = [op |-> "disconnect"]
    /\ ret' = Returned(PyNone)

\* ts.run_command(cmd)
DoRunCommand ==
    \E cmd \in Commands, resp \in Responses(Outputs) :
        LET r == run_command(Self, cmd, resp)
        IN  /\ Install(r.s)
            /\ call' = [op |-> "run_command", command |-> cmd]
            /\ ret' = Returned(r.ret)

\* ts.run_diagnostics(arg); the transport is asked once per command
DoRunDiagnostics(arg) ==
    LET n == IF arg = PyNone \/ arg = <<>> THEN Len(DIAGNOSTIC_COMMANDS) ELSE Len(arg)
    IN  \E conn \in GateInputs(Self), now \in Timestamps,
           resps \in [1..n -> Responses(Outputs)] :
            LET r == run_diagnostics(Self, arg, conn, resps, now)
            IN  /\ Install(r.s)
                /\ call' = [op |-> "run_diagnostics", arg |-> arg,
                            wasEstablished |-> everConnected,
                            attempted |-> r.attempted,
                            commands |-> r.commands, outputs |-> r.outputs,
                            failed |-> {i \in 1..Len(r.s.sent) : resps[i].kind = "raise"}]
                /\ ret' = Returned(r.ret)

\* ts.check_health()
DoCheckHealth ==
    \E conn \in GateInputs(Self), cpu \in Responses(CpuTexts),
       mem \in Responses(MemTexts), int \in Responses(IntTexts) :
        LET r == check_health(Self, conn, cpu, mem, int)
        IN  /\ Install(r.s)
            /\ call' = [op |-> "check_health",
                        wasEstablished |-> everConnected,
                        attempted |-> r.attempted,
                        cpu_output |-> r.locals.cpu_output,
                        mem_output |-> r.locals.mem_output,
                        int_output |-> r.locals.int_output]
            /\ ret' = r.ret

\* --------------------------------------------- a caller of the session API
\* Any sequence of calls on one session: pc is "ready" before a call and
\* "returned" while the caller holds its result.
Client == [name |-> "client", index |-> 1]

Init ==
    /\ device = "192.168.1.1"
    /\ connection = PyNone
    /\ hostname = PyNone
    /\ transport = NoTransport
    /\ everConnected = FALSE
    /\ disconnectCalled = FALSE
    /\ sent = <<>>
    /\ call = [op |-> "init"]
    /\ ret = Returned(PyNone)
    /\ pc = "ready"
    /\ workflow = Client

Connect ==
    /\ pc = "ready" /\ DoConnect
    /\ pc' = "returned" /\ UNCHANGED workflow

Disconnect ==
    /\ pc = "ready" /\ DoDisconnect
    /\ pc' = "returned" /\ UNCHANGED workflow

RunCommand ==
    /\ pc = "ready" /\ DoRunCommand
    /\ pc' = "returned" /\ UNCHANGED workflow

RunDiagnostics ==
    /\ pc = "ready"
    /\ \E arg \in CommandLists \cup {PyNone} : DoRunDiagnostics(arg)
    /\ pc' = "returned" /\ UNCHANGED workflow

CheckHealth ==
    /\ pc = "ready" /\ DoCheckHealth
    /\ pc' = "returned" /\ UNCHANGED workflow

\* the caller drops the result and goes on to its next call
Proceed ==
    /\ pc = "returned"
    /\ pc' = "ready"
    /\ call' = [op |-> "idle"]
    /\ ret' = Returned(PyNone)
    /\ sent' = <<>>
    /\ UNCHANGED <<device, connection, hostname, transport, everConnected,
                   disconnectCalled, workflow>>

Next ==
    \/ Connect
    \/ Disconnect
    \/ RunCommand
    \/ RunDiagnostics
    \/ CheckHealth
    \/ Proceed

Spec == Init /\ [][Next]_vars


\* --------------------------------------------------------------- workflows
\* main() of cisco_troubleshooter.py and the three functions of
\* examples/example_usage.py.  pc names the statement about to run; "exit" is
\* the function returning, "raised" an exception leaving it uncaught.
WorkflowNames ==
    {"main", "basic_health_check", "custom_diagnostics", "multiple_devices"}

\* the devices list of multiple_devices
Devices == <<"192.168.1.1", "192.168.1.2", "192.168.1.3">>

\* custom_commands of custom_diagnostics
CustomCommands ==
    <<"show version", "show running-config | include hostname",
      "show ip route summary", "show cdp neighbors">>

InitMain ==
    /\ workflow \in {[name |-> w, index |-> 1] : w \in WorkflowNames}
    /\ device = Devices[1]
    /\ connection = PyNone
    /\ hostname = PyNone
    /\ transport = NoTransport
    /\ everConnected = FALSE
    /\ disconnectCalled = FALSE
    /\ sent = <<>>
    /\ call = [op |-> "init"]
    /\ ret = Returned(PyNone)
    /\ pc = "connect"

\* the statement after the body of `if ts.connect():`
AfterSession(name) ==
    IF name = "multiple_devices" THEN "next_device" ELSE "exit"

\* if ts.connect(): ... else: ...
WfConnect ==
    /\ pc = "connect"
    /\ DoConnect
    /\ pc' = IF ret'.val
             THEN IF workflow.name = "basic_health_check"
                  THEN "check_health" ELSE "run_diagnostics"
             ELSE AfterSession(workflow.name)
    /\ UNCHANGED workflow

\* results = ts.run_diagnostics(...)
WfRunDiagnostics ==
    /\ pc = "run_diagnostics"
    /\ DoRunDiagnostics(IF workflow.name = "custom_diagnostics"
                        THEN CustomCommands ELSE PyNone)
    /\ pc' = "generate_report"
    /\ UNCHANGED workflow

\* ts.generate_report(results, ...): the file is written, or the error of
\* writing it is caught and printed; the session is not touched
WfGenerateReport ==
    /\ pc = "generate_report"
    /\ \E written \in BOOLEAN :
           call' = [op |-> "generate_report", written |-> written]
    /\ ret' = Returned(PyNone)
    /\ sent' = <<>>
    /\ pc' = IF workflow.name = "main" THEN "save_json" ELSE "disconnect"
    /\ UNCHANGED <<device, connection, hostname, transport, everConnected,
                   disconnectCalled, workflow>>

\* ts.save_json(results)
WfSaveJson ==
    /\ pc = "save_json"
    /\ \E written \in BOOLEAN :
           call' = [op |-> "save_json", written |-> written]
    /\ ret' = Returned(PyNone)
    /\ sent' = <<>>
    /\ pc' = "check_health"
    /\ UNCHANGED <<device, connection, hostname, transport, everConnected,
                   disconnectCalled, workflow>>

\* health = ts.check_health(): an exception it raises is caught nowhere
WfCheckHealth ==
    /\ pc = "check_health"
    /\ DoCheckHealth
    /\ pc' = IF ret'.kind = "raise" THEN "raised" ELSE "print_health"
    /\ UNCHANGED workflow

\* print(health['status']); for issue in health['issues']: print(issue)
WfPrintHealth ==
    /\ pc = "print_health"
    /\ pc' = IF "status" \in DOMAIN ret.val THEN "disconnect" ELSE "raised"
    /\ UNCHANGED <<device, connection, hostname, transport, everConnected,
                   disconnectCalled, sent, call, ret, workflow>>

\* ts.disconnect()
WfDisconnect ==
    /\ pc = "disconnect"
    /\ DoDisconnect
    /\ pc' = AfterSession(workflow.name)
    /\ UNCHANGED workflow

\* for device in devices: ts = CiscoTroubleshooter(**device)
WfNextDevice ==
    /\ pc = "next_device"
    /\ IF workflow.index < Len(Devices)
       THEN /\ workflow' = [workflow EXCEPT !.index = @ + 1]
            /\ Install(NewSession(Devices[workflow.index + 1]))
            /\ call' = [op |-> "init"]
            /\ ret' = Returned(PyNone)
            /\ pc' = "connect"
       ELSE /\ pc' = "exit"
            /\ UNCHANGED <<device, connection, hostname, transport, everConnected,
                           disconnectCalled, sent, call, ret, workflow>>

NextMain ==
    \/ WfConnect
    \/ WfRunDiagnostics
    \/ WfGenerateReport
    \/ WfSaveJson
    \/ WfCheckHealth
    \/ WfPrintHealth
    \/ WfDisconnect
    \/ WfNextDevice

SpecMain == InitMain /\ [][NextMain]_vars


\* -------------------------------------------------------------- properties
\* vocabulary of the properties below

Range(seq) == {seq[i] : i \in 1..Len(seq)}

LastIndex(seq, x) ==
    CHOOSE i \in 1..Len(seq) : seq[i] = x /\ \A j \in (i + 1)..Len(seq) : seq[j] # x

StartsWith(s, prefix) ==
    Len(s) >= Len(prefix) /\ SubSeq(s, 1, Len(prefix)) = prefix

\* the session is not connected: no connect() has returned True, or
\* disconnect() has been called since the last one that did
NotConnected == ~everConnected \/ disconnectCalled

\* run_diagnostics returned a bundle / check_health returned a HealthReport
BundleReturned ==
    call.op = "run_diagnostics" /\ ret.kind = "return" /\ "diagnostics" \in DOMAIN ret.val

ReportReturned ==
    call.op = "check_health" /\ ret.kind = "return" /\ "status" \in DOMAIN ret.val

ProbeCommands == <<CpuCommand, MemCommand, IntCommand>>

\* the five-minute field of a line: the text between the marker and the next '%'
FiveMinuteField(line) == Split(Split(line, MarkerFiveMinutes)[2], <<"%">>)[1]

\* the CPU probe triggers: no "Error" in the output and a five-minute value > 80
CpuTriggered(out) ==
    /\ ~Contains(out, MarkerError)
    /\ \E line \in Range(Split(Strip(out), <<"\n">>)) :
           /\ Contains(line, MarkerFiveMinutes)
           /\ ParseInt(FiveMinuteField(line)).ok
           /\ ParseInt(FiveMinuteField(line)).val > 80

\* the memory probe triggers: "Free" and no "Error", last token < 10,000,000
MemTriggered(out) ==
    /\ Contains(out, MarkerFree)
    /\ ~Contains(out, MarkerError)
    /\ LET tokens == SplitWs(out)
       IN  /\ ParseInt(tokens[Len(tokens)]).ok
           /\ ParseInt(tokens[Len(tokens)]).val < 10000000

\* the interface probe appends: no "Error" and something left after trimming
IntTriggered(out) ==
    ~Contains(out, MarkerError) /\ \E i \in 1..Len(out) : out[i] \notin Whitespace

\* newline-delimited lines of the trimmed output
LineCount(out) ==
    LET t == Strip(out) IN 1 + Cardinality({i \in 1..Len(t) : t[i] = "\n"})

\* C1 (as claimed): while the session is not connected, run_command(cmd)
\* returns exactly "Error: Not connected to device" and sends nothing to the
\* transport, for every cmd.
C1_NotConnectedReturnsLiteral ==
    (call.op = "run_command" /\ NotConnected)
        => (ret = Returned(MsgNotConnected) /\ sent = <<>>)

\* C2 (as claimed): check_health never raises, whatever the probes' outputs;
\* once past the connect gate all three probes run, and a HealthReport is
\* returned.
C2_ProbesBestEffort ==
    call.op = "check_health"
        => /\ ret.kind = "return"
           /\ "error" \notin DOMAIN ret.val
                  => ("status" \in DOMAIN ret.val /\ sent = ProbeCommands)

\* C3 (as claimed): a workflow that connected its session has had the
\* transport's disconnect invoked on it by the time it leaves the session,
\* whether it returns or an exception escapes.
C3_DisconnectOnEveryExit ==
    (pc \in {"exit", "raised", "next_device"} /\ everConnected)
        => transport.disconnects >= 1

\* C4: run_diagnostics given a non-empty command list sends each command of
\* the list once, in list order, and the bundle's 'diagnostics' has exactly
\* one entry per distinct command, holding the output of that command's last
\* execution in the list.
C4_LastOutputPerCommand ==
    (BundleReturned /\ call.arg # PyNone /\ call.arg # <<>>)
        => LET d == ret.val.diagnostics
           IN  /\ sent = call.arg
               /\ Len(call.outputs) = Len(call.arg)
               /\ Range(d.keys) = Range(call.arg)
               /\ Cardinality(Range(d.keys)) = Len(d.keys)
               /\ Len(d.at) = Len(d.keys)
               /\ \A c \in Range(call.arg) :
                      DictGet(d, c) = call.outputs[LastIndex(call.arg, c)]

\* C4 witness: on a connected session, a list naming one command twice whose
\* first execution failed and whose second succeeded; the entry is the second
C4_Witness ==
    /\ BundleReturned
    /\ call.wasEstablished /\ ~call.attempted
    /\ call.arg = <<"show version", "show version">>
    /\ call.failed = {1}
    /\ ret.val.diagnostics.keys = <<"show version">>
    /\ ret.val.diagnostics.at = <<<<"I","O","S">>>>

\* C5 (as claimed): run_diagnostics or check_health called on a session on
\* which no connect() has succeeded attempts connect, and if that connect does
\* not succeed returns {"error": "Failed to connect to device"} and sends no
\* command.
C5_GateBeforeAnyCommand ==
    (call.op \in {"run_diagnostics", "check_health"} /\ ~call.wasEstablished)
        => /\ call.attempted
           /\ ~everConnected => (ret = Returned(ErrorDict) /\ sent = <<>>)

\* C6: a returned HealthReport has status 'warning' exactly when the CPU probe
\* or the memory probe triggered; the interface probe appends
\* "{count} interfaces down" as the last issue and leaves status alone.
C6_WarningIffCpuOrMemory ==
    ReportReturned
        => /\ ret.val.status \in {"healthy", "warning"}
           /\ ret.val.status = "warning"
                  <=> (CpuTriggered(call.cpu_output) \/ MemTriggered(call.mem_output))
           /\ IntTriggered(call.int_output)
                  => /\ ret.val.issues # <<>>
                     /\ ret.val.issues[Len(ret.val.issues)] =
                            IntToStr(LineCount(call.int_output)) \o MsgInterfacesDown

\* C6 witness: three interface-down lines and no other trigger: the issue
\* "3 interfaces down" with status 'healthy'
C6_Witness ==
    /\ ReportReturned
    /\ call.int_output = JoinLines(<<DownLine, DownLine, DownLine>>)
    /\ ret.val.issues = << <<"3">> \o MsgInterfacesDown >>
    /\ ret.val.status = "healthy"

\* C7: a returned HealthReport has at least one issue; the sentinel
\* "No issues detected" is among them exactly when no probe appended an issue,
\* and then it is the only one and status is 'healthy'.
C7_SentinelIffNoIssue ==
    ReportReturned
        => LET issues == ret.val.issues
               appended == \/ CpuTriggered(call.cpu_output)
                           \/ MemTriggered(call.mem_output)
                           \/ IntTriggered(call.int_output)
           IN  /\ issues # <<>>
               /\ (MsgNoIssues \in Range(issues)) <=> ~appended
               /\ ~appended => (issues = <<MsgNoIssues>> /\ ret.val.status = "healthy")

\* C7 witness: the probes parsed their outputs and none triggered (CPU at the
\* threshold, memory at the threshold, no interface down)
C7_Witness ==
    /\ ReportReturned
    /\ call.cpu_output = MarkerFiveMinutes \o <<" ","8","0","%">>
    /\ call.mem_output = MarkerFree \o <<":"," ","1","0","0","0","0","0","0","0">>
    /\ call.int_output = <<>>
    /\ ret.val.issues = <<MsgNoIssues>>
    /\ ret.val.status = "healthy"

\* C8 (as claimed): commands reach the transport only on a session on which
\* a connect() call has returned True, and hostname is set only then.
C8_ConnectedOnlyAfterSuccess ==
    /\ sent # <<>> => everConnected
    /\ hostname # PyNone => everConnected

\* C9 (as claimed): over any sequence of disconnect() calls the transport's
\* disconnect is invoked at most once on an established session, and
\* disconnect() invokes nothing on a session that holds no connection.
C9_DisconnectAtMostOnce ==
    /\ transport.disconnects <= 1
    /\ (call.op = "disconnect" /\ connection = PyNone) => transport = NoTransport

\* C10 (as claimed): run_diagnostics does not raise, executes every command
\* of the list whichever of them fail, and the bundle has an entry for every
\* distinct command; the entry of each command whose transport call raised
\* starts with "Error executing command: ".
C10_FailedCommandHasErrorEntry ==
    call.op = "run_diagnostics"
        => /\ ret.kind = "return"
           /\ BundleReturned
                  => LET d == ret.val.diagnostics
                     IN  /\ sent = call.commands
                         /\ \A c \in Range(call.commands) : HasKey(d, c)
                         /\ \A i \in call.failed :
                                StartsWith(DictGet(d, call.commands[i]),
                                           MsgErrorExecuting)

\* C10 (amended): as above, the error entry being that of each command whose
\* last execution in the list raised.
C10_LastFailureHasErrorEntry ==
    call.op = "run_diagnostics"
        => /\ ret.kind = "return"
           /\ BundleReturned
                  => LET d == ret.val.diagnostics
                     IN  /\ sent = call.commands
                         /\ \A c \in Range(call.commands) : HasKey(d, c)
                         /\ \A c \in Range(call.commands) :
                                LastIndex(call.commands, c) \in call.failed
                                    => StartsWith(DictGet(d, c), MsgErrorExecuting)

\* C10 witness: the first of two distinct commands failed, the second was
\* still executed, and both have their entry
C10_Witness ==
    /\ BundleReturned
    /\ call.wasEstablished /\ ~call.attempted
    /\ call.commands = <<"show version", "show cdp neighbors">>
    /\ call.failed = {1}
    /\ sent = call.commands
    /\ StartsWith(DictGet(ret.val.diagnostics, "show version"), MsgErrorExecuting)
    /\ DictGet(ret.val.diagnostics, "show cdp neighbors") = <<"I","O","S">>

====
